---- MODULE Spec2Model ----
(***************************************************************************)
(* A model of codesync: the KMP matcher (src/src/kmp.rs), the annotation   *)
(* parser and the scanner (src/src/lib.rs) and the checker                 *)
(* (src/src/main.rs).                                                      *)
(*                                                                         *)
(* Text is a sequence of one-character strings.  Offsets are 0-based as in *)
(* the Rust source; s[i + 1] is the byte at offset i.  An Option is a      *)
(* sequence: None is << >> and Some(x) is << x >>.                         *)
(***************************************************************************)
EXTENDS Integers, Sequences, FiniteSets, TLC

(***************************************************************************)
(* Bounds of the model.                                                    *)
(***************************************************************************)
MaxNeedle == 3
MaxHaystack == 5
MaxText == 4
MaxCountLen == 4
MaxLabel == 2
MaxCount == 10
MaxLines == 3
MaxCheckLines == 3
MaxCaseLen == 4

(***************************************************************************)
(* Generic helpers over sequences.                                         *)
(***************************************************************************)
None == << >>
Some(x) == << x >>
IsSome(o) == Len(o) = 1
Unwrap(o) == o[1]

SeqsUpTo(S, n) == UNION {[1..k -> S] : k \in 0..n}

\* s[from..to) with 0-based offsets, the Rust slice &s[from..to]
Slice(s, from, to) == SubSeq(s, from + 1, to)

Min(S) == CHOOSE x \in S : \A y \in S : x <= y

(***************************************************************************)
(* src/src/kmp.rs                                                          *)
(***************************************************************************)

\* table()'s loop as if a mismatch sent the needle pointer back to 0
RECURSIVE TableLoopRestart(_, _, _, _)
TableLoopRestart(p, t, i, j) ==
    IF ~(i < Len(p)) THEN t
    ELSE IF p[i + 1] = p[j + 1]
         THEN TableLoopRestart(p, [t EXCEPT ![i + 1] = j + 1], i + 1, j + 1)
    ELSE IF j = 0
         THEN TableLoopRestart(p, [t EXCEPT ![i + 1] = 0], i + 1, j)
    ELSE TableLoopRestart(p, t, i, 0)

\* The while loop of table(): i, j are the two pointers, t the table so far.
RECURSIVE TableLoop(_, _, _, _)
TableLoop(p, t, i, j) ==
    IF ~(i < Len(p)) THEN t
    ELSE IF p[i + 1] = p[j + 1]
         THEN TableLoop(p, [t EXCEPT ![i + 1] = j + 1], i + 1, j + 1)
    ELSE IF j = 0
         THEN TableLoop(p, [t EXCEPT ![i + 1] = 0], i + 1, j)
    ELSE TableLoop(p, t, i, t[j])

table(p) == TableLoop(p, [k \in 1..Len(p) |-> 0], 1, 0)

\* The fallback of the needle pointer on a mismatch (kmp.rs lines 17-21).
MismatchFallback(tbl, p_i) == IF p_i = 0 THEN 0 ELSE tbl[p_i]

\* The bookkeeping of the start of the current run of matches (lines 8-10):
\* 0 doubles as "no run in progress".
RecordStart(result_idx, t_i) == IF result_idx = 0 THEN t_i ELSE result_idx

\* The while loop of search().
RECURSIVE SearchLoop(_, _, _, _, _, _)
SearchLoop(haystack, needle, tbl, t_i, p_i, result_idx) ==
    IF ~(t_i < Len(haystack) /\ p_i < Len(needle)) THEN None
    ELSE IF haystack[t_i + 1] = needle[p_i + 1]
         THEN LET r == RecordStart(result_idx, t_i)
              IN  IF p_i + 1 >= Len(needle)
                  THEN Some(r)
                  ELSE SearchLoop(haystack, needle, tbl, t_i + 1, p_i + 1, r)
    ELSE SearchLoop(haystack, needle, tbl, t_i + 1,
                    MismatchFallback(tbl, p_i), 0)

search(haystack, needle, tbl) == SearchLoop(haystack, needle, tbl, 0, 0, 0)

(***************************************************************************)
(* src/src/lib.rs: the marker and the annotation parser                    *)
(***************************************************************************)
PATTERN == << "C", "O", "D", "E", "S", "Y", "N", "C" >>
PATTERN_KMP_TABLE == table(PATTERN)

find_codesync_pattern(haystack) == search(haystack, PATTERN, PATTERN_KMP_TABLE)

\* str::trim(): the characters of the model that have the White_Space property
Whitespace == {" ", "\n"}

RECURSIVE TrimStart(_)
TrimStart(s) ==
    IF Len(s) > 0 /\ s[1] \in Whitespace THEN TrimStart(Tail(s)) ELSE s

RECURSIVE TrimEnd(_)
TrimEnd(s) ==
    IF Len(s) > 0 /\ s[Len(s)] \in Whitespace
    THEN TrimEnd(SubSeq(s, 1, Len(s) - 1))
    ELSE s

Trim(s) == TrimEnd(TrimStart(s))

\* u16::MAX, the largest value parse::<u16>() accepts
U16Max == 65535

Digits == {"0", "1", "2", "3", "4", "5", "6", "7", "8", "9"}
DigitVal(c) ==
    CASE c = "0" -> 0 [] c = "1" -> 1 [] c = "2" -> 2 [] c = "3" -> 3
      [] c = "4" -> 4 [] c = "5" -> 5 [] c = "6" -> 6 [] c = "7" -> 7
      [] c = "8" -> 8 [] c = "9" -> 9

\* The digit loop of <u16 as FromStr>::from_str: checked_mul(10) then
\* checked_add(digit); a non-digit or an overflow is an error (None).
RECURSIVE ParseDigits(_, _)
ParseDigits(s, acc) ==
    IF Len(s) = 0 THEN Some(acc)
    ELSE IF s[1] \notin Digits THEN None
    ELSE LET v == acc * 10 + DigitVal(s[1])
         IN  IF v > U16Max THEN None ELSE ParseDigits(Tail(s), v)

\* str::parse::<u16>(): empty is an error, a lone sign is an error, one
\* leading "+" is accepted, "-" is not a digit of an unsigned type.
ParseU16(s) ==
    IF Len(s) = 0 THEN None
    ELSE IF Len(s) = 1 /\ s[1] \in {"+", "-"} THEN None
    ELSE IF s[1] = "+" THEN ParseDigits(Tail(s), 0)
    ELSE ParseDigits(s, 0)

\* The number of consecutive characters of s, from offset `from`, outside Stop:
\* what a greedy negated class [^...]* consumes.
RECURSIVE RunLen(_, _, _)
RunLen(s, from, Stop) ==
    IF from < Len(s) /\ s[from + 1] \notin Stop
    THEN 1 + RunLen(s, from + 1, Stop)
    ELSE 0

\* The characters capture group 1, ([^,\)]+), does not take.
Group1StopParenOnly == {")"}
Group1Stop == {",", ")"}

\* OPTS_REGEX = ^\(([^,\)]+)(?:,([^\)]*))?\) matched against haystack.
\* None when the regex does not match; otherwise the captures: group 1 as
\* m1 = <<start, end>>, group 2 as an Option m2, and the length of group 0.
\* Group 1 is greedy, so it takes the whole run up to the first "," or ")";
\* a shorter group 1 is followed by a character that is neither "," nor ")",
\* so backtracking into it never yields a match.
ReCaptures(haystack) ==
    IF Len(haystack) = 0 \/ haystack[1] # "(" THEN None
    ELSE LET n1 == RunLen(haystack, 1, Group1Stop)
             e1 == 1 + n1
         IN  IF n1 = 0 \/ ~(e1 < Len(haystack)) THEN None
             ELSE IF haystack[e1 + 1] = ")"
                  THEN Some([m1 |-> <<1, e1>>, m2 |-> None, len |-> e1 + 1])
             ELSE \* haystack[e1 + 1] = ","
                  LET n2 == RunLen(haystack, e1 + 1, {")"})
                      e2 == e1 + 1 + n2
                  IN  IF ~(e2 < Len(haystack)) THEN None
                      ELSE Some([m1 |-> <<1, e1>>,
                                 m2 |-> Some(<<e1 + 1, e2>>),
                                 len |-> e2 + 1])

Malformed == [tag |-> "Malformed"]
InvalidCount(start, end) == [tag |-> "InvalidCount", start |-> start, end |-> end]

\* The label argument built from capture group 1 (lib.rs lines 264-269).
LabelOf(byte_offset, haystack, m) ==
    [val    |-> Trim(Slice(haystack, m[1], m[2])),
     match_ |-> Slice(haystack, m[1], m[2]),
     span   |-> <<byte_offset + m[1], byte_offset + m[2]>>]

\* The absolute span of capture group 2 (line 272).
CountSpanRelative(byte_offset, m) == <<m[1], m[2]>>
CountSpan(byte_offset, m) == <<byte_offset + m[1], byte_offset + m[2]>>

\* Whether the raw text of capture group 2 parses as a count (lines 273-277).
CountValueUntrimmed(raw) == ParseU16(raw)
CountValue(raw) == ParseU16(Trim(raw))

\* Matcher::parse_args
parse_args(byte_offset, haystack) ==
    LET captures == ReCaptures(haystack)
    IN  IF ~IsSome(captures) THEN Malformed
        ELSE LET c == Unwrap(captures)
                 label == LabelOf(byte_offset, haystack, c.m1)
             IN  IF IsSome(c.m2)
                 THEN LET m == Unwrap(c.m2)
                          start == CountSpan(byte_offset, m)[1]
                          end == CountSpan(byte_offset, m)[2]
                          raw == Slice(haystack, m[1], m[2])
                          val == CountValue(raw)
                      IN  IF ~IsSome(val) THEN InvalidCount(start, end)
                          ELSE [tag   |-> "Ok",
                                label |-> label,
                                count |-> Some([val    |-> Unwrap(val),
                                                match_ |-> raw,
                                                span   |-> <<start, end>>]),
                                len   |-> c.len]
                 ELSE [tag   |-> "Ok",
                       label |-> label,
                       count |-> None,
                       len   |-> c.len]

(***************************************************************************)
(* src/src/lib.rs: the scanner                                             *)
(***************************************************************************)

\* Matcher::parse_line.  None is a panic: expect() on a line without the
\* marker, or the slice &line[idx + PATTERN.len()..] starting past the end.
parse_line(byte_offset, line) ==
    LET found == find_codesync_pattern(line)
    IN  IF ~IsSome(found) THEN None
        ELSE LET idx == Unwrap(found)
             IN  IF idx + Len(PATTERN) > Len(line) THEN None
                 ELSE Some([args |-> parse_args(byte_offset + idx + Len(PATTERN),
                                                Slice(line, idx + Len(PATTERN),
                                                      Len(line))),
                            byte_offset |-> byte_offset + idx])

\* <&Matcher as grep::matcher::Matcher>::find_at: the range of the match
find_at(hay, at) ==
    LET found == find_codesync_pattern(Slice(hay, at, Len(hay)))
    IN  IF IsSome(found)
        THEN Some(<<at + Unwrap(found), at + Unwrap(found) + Len(PATTERN)>>)
        ELSE None

\* The searcher matches line by line, on the line without its terminator, and
\* hands a matching line, terminator included, to the sink.
WithoutTerminator(line) ==
    IF Len(line) > 0 /\ line[Len(line)] = "\n"
    THEN SubSeq(line, 1, Len(line) - 1)
    ELSE line

IsMatchingLine(line) == IsSome(find_at(WithoutTerminator(line), 0))

\* FileMatches::new
NewFileMatches(path) == [path |-> path, matches |-> << >>]

\* Match::span as if the arguments were never counted in
SpanOfMarker(m) == <<m.byte_offset, m.byte_offset + Len(PATTERN)>>

\* Match::span
Span(m) ==
    <<m.byte_offset,
      m.byte_offset + Len(PATTERN) + (IF m.args.tag = "Ok" THEN m.args.len ELSE 0)>>

(***************************************************************************)
(* src/src/main.rs: the checker                                            *)
(***************************************************************************)

\* FilesDB::malformed_diagnostic and FilesDB::invalid_count_diagnostic: the
\* message and the one primary label (file, span) of the diagnostic
malformed_diagnostic(path, span) ==
    [message |-> "malformed codesync comment", file |-> path, span |-> span]
invalid_count_diagnostic(path, span) ==
    [message |-> "invalid count", file |-> path, span |-> span]

\* The body of the loop of report_invalid_matches for one invalid match.
InvalidDiagnosticAtMatch(path, m) ==
    malformed_diagnostic(path, Span(m))
InvalidDiagnostic(path, m) ==
    IF m.args.tag = "Malformed"
    THEN malformed_diagnostic(path, Span(m))
    ELSE invalid_count_diagnostic(path, <<m.args.start, m.args.end>>)

\* Match::to_invalid
IsInvalid(m) == m.args.tag # "Ok"

\* Matches::invalid_matches, as the diagnostics report_invalid_matches emits
\* for them: files in order, the matches of a file in order.
RECURSIVE InvalidDiagnosticsOfFile(_, _)
InvalidDiagnosticsOfFile(path, ms) ==
    IF Len(ms) = 0 THEN << >>
    ELSE (IF IsInvalid(Head(ms)) THEN <<InvalidDiagnostic(path, Head(ms))>>
          ELSE << >>) \o InvalidDiagnosticsOfFile(path, Tail(ms))

\* invalid_matches as if only the first file were looked at
InvalidDiagnosticsFirstFile(fs) ==
    IF Len(fs) = 0 THEN << >>
    ELSE InvalidDiagnosticsOfFile(Head(fs).path, Head(fs).matches)

RECURSIVE InvalidDiagnostics(_)
InvalidDiagnostics(fs) ==
    IF Len(fs) = 0 THEN << >>
    ELSE InvalidDiagnosticsOfFile(Head(fs).path, Head(fs).matches)
            \o InvalidDiagnostics(Tail(fs))

(***************************************************************************)
(* src/src/inflector/case: the case converter                              *)
(***************************************************************************)
\* the letters of the texts converted here, lowercase and uppercase
LowerLetters == <<"a", "b", "c", "f", "o", "r", "x", "y", "z">>
UpperLetters == <<"A", "B", "C", "F", "O", "R", "X", "Y", "Z">>

LetterIndex(letters, c) == CHOOSE i \in 1..Len(letters) : letters[i] = c

\* char::is_lowercase, char::is_uppercase, char::is_alphanumeric
is_lowercase(c) == \E i \in 1..Len(LowerLetters) : LowerLetters[i] = c
is_uppercase(c) == \E i \in 1..Len(UpperLetters) : UpperLetters[i] = c
is_alphanumeric(c) == is_lowercase(c) \/ is_uppercase(c) \/ c \in Digits

\* char::to_ascii_lowercase, char::to_ascii_uppercase
to_ascii_lowercase(c) ==
    IF is_uppercase(c) THEN LowerLetters[LetterIndex(UpperLetters, c)] ELSE c
to_ascii_uppercase(c) ==
    IF is_lowercase(c) THEN UpperLetters[LetterIndex(LowerLetters, c)] ELSE c

is_not_alphanumeric(c) == ~is_alphanumeric(c)
char_is_separator(c) == is_not_alphanumeric(c)

\* trim_right as if nothing were trimmed
trim_right_nothing(s) == s

\* trim_right: str::trim_end_matches(is_not_alphanumeric)
RECURSIVE trim_right(_)
trim_right(s) ==
    IF Len(s) > 0 /\ is_not_alphanumeric(s[Len(s)])
    THEN trim_right(SubSeq(s, 1, Len(s) - 1))
    ELSE s

\* chars().nth(i).unwrap_or('A'), i counted from 0
NthOrA(s, i) == IF i >= 0 /\ i < Len(s) THEN s[i + 1] ELSE "A"

next_or_previous_char_is_lowercase(convertable_string, i) ==
    \/ is_lowercase(NthOrA(convertable_string, i + 1))
    \/ is_lowercase(NthOrA(convertable_string, i - 1))

\* requires_separator as if a digit next to a letter asked for one too
requires_separator_digit(i, c, first_character, convertable_string) ==
    /\ ~first_character
    /\ is_uppercase(c) \/ c \in Digits

requires_separator(i, c, first_character, convertable_string) ==
    /\ ~first_character
    /\ is_uppercase(c)
    /\ next_or_previous_char_is_lowercase(convertable_string, i)

\* snake_like_no_separator and snake_like_with_separator
SnakeCased(c, case) ==
    IF case = "lower" THEN to_ascii_lowercase(c) ELSE to_ascii_uppercase(c)
snake_like_no_separator(accumlator, c, case) ==
    Append(accumlator, SnakeCased(c, case))
snake_like_with_separator(accumlator, replace_with, c, case) ==
    accumlator \o <<replace_with, SnakeCased(c, case)>>

\* the loop of to_case_snake_like from character i of the n of the trimmed
\* text, with the flag first_character and the result so far
RECURSIVE SnakeLoop(_, _, _, _, _, _, _)
SnakeLoop(convertable_string, n, replace_with, case, i, first_character, result) ==
    IF i >= n THEN result
    ELSE LET c == convertable_string[i + 1]
         IN  IF char_is_separator(c)
             THEN IF ~first_character
                  THEN SnakeLoop(convertable_string, n, replace_with, case, i + 1,
                                 TRUE, Append(result, replace_with))
                  ELSE SnakeLoop(convertable_string, n, replace_with, case, i + 1,
                                 first_character, result)
             ELSE IF requires_separator(i, c, first_character, convertable_string)
             THEN SnakeLoop(convertable_string, n, replace_with, case, i + 1, FALSE,
                            snake_like_with_separator(result, replace_with, c, case))
             ELSE SnakeLoop(convertable_string, n, replace_with, case, i + 1, FALSE,
                            snake_like_no_separator(result, c, case))

to_case_snake_like(convertable_string, replace_with, case) ==
    SnakeLoop(convertable_string, Len(trim_right(convertable_string)),
              replace_with, case, 0, TRUE, << >>)

last_char_lower_current_is_upper_or_new_word(new_word, last_char, character) ==
    \/ new_word
    \/ /\ is_lowercase(last_char)
       /\ is_uppercase(character)
       /\ last_char # " "

append_on_new_word(result, first_word, character, camel_options) ==
    (IF camel_options.has_separator /\ ~first_word
     THEN Append(result, camel_options.injectable_char)
     ELSE result)
        \o (IF ~camel_options.inverted \/ first_word
            THEN <<to_ascii_uppercase(character)>>
            ELSE <<to_ascii_lowercase(character)>>)

\* the loop of to_case_camel_like over the characters left, st holding
\* new_word, first_word, last_char, found_real_char and result
RECURSIVE CamelLoop(_, _, _)
CamelLoop(chars, camel_options, st) ==
    IF Len(chars) = 0 THEN st.result
    ELSE LET character == Head(chars)
         IN  IF char_is_separator(character) /\ st.found_real_char
             THEN CamelLoop(Tail(chars), camel_options,
                            [st EXCEPT !.new_word = TRUE])
             ELSE IF ~st.found_real_char /\ is_not_alphanumeric(character)
             THEN CamelLoop(Tail(chars), camel_options, st)
             ELSE IF last_char_lower_current_is_upper_or_new_word(
                        st.new_word, st.last_char, character)
             THEN CamelLoop(Tail(chars), camel_options,
                            [st EXCEPT !.found_real_char = TRUE,
                                       !.new_word = FALSE,
                                       !.result = append_on_new_word(
                                           st.result, st.first_word, character,
                                           camel_options),
                                       !.first_word = FALSE])
             ELSE CamelLoop(Tail(chars), camel_options,
                            [st EXCEPT !.found_real_char = TRUE,
                                       !.last_char = character,
                                       !.result = Append(st.result,
                                           to_ascii_lowercase(character))])

\* to_case_camel_like with an empty set of acronyms, as Case::to_case and
\* is_camel_case call it: capitalize_acronym_substrings changes nothing
to_case_camel_like(convertable_string, camel_options) ==
    CamelLoop(trim_right(convertable_string), camel_options,
              [new_word |-> camel_options.new_word,
               first_word |-> camel_options.first_word,
               last_char |-> camel_options.last_char,
               found_real_char |-> FALSE,
               result |-> << >>])

\* camel.rs
to_camel_case(s) ==
    to_case_camel_like(s, [new_word |-> FALSE, last_char |-> " ",
                           first_word |-> FALSE, injectable_char |-> " ",
                           has_separator |-> FALSE, inverted |-> FALSE])
is_camel_case(s) == to_camel_case(s) = s

\* screaming_snake.rs
to_screaming_snake_case(s) == to_case_snake_like(s, "_", "upper")
is_screaming_snake_case(s) == s = to_screaming_snake_case(s)

\* snake, kebab, pascal and train: the shared cores above with the
\* separator and letter casing the specification gives each style
to_snake_case(s) == to_case_snake_like(s, "_", "lower")
is_snake_case(s) == s = to_snake_case(s)
to_kebab_case(s) == to_case_snake_like(s, "-", "lower")
is_kebab_case(s) == s = to_kebab_case(s)
to_pascal_case(s) ==
    to_case_camel_like(s, [new_word |-> TRUE, last_char |-> " ",
                           first_word |-> FALSE, injectable_char |-> " ",
                           has_separator |-> FALSE, inverted |-> FALSE])
is_pascal_case(s) == to_pascal_case(s) = s
to_train_case(s) ==
    to_case_camel_like(s, [new_word |-> TRUE, last_char |-> " ",
                           first_word |-> TRUE, injectable_char |-> "-",
                           has_separator |-> TRUE, inverted |-> FALSE])
is_train_case(s) == to_train_case(s) = s

\* main.rs: enum Case, Case::has_case and Case::to_case
Cases == {"Camel", "Kebab", "Pascal", "ScreamingSnake", "Snake", "Train"}

has_case(case, s) ==
    CASE case = "Camel" -> is_camel_case(s)
      [] case = "Kebab" -> is_kebab_case(s)
      [] case = "Pascal" -> is_pascal_case(s)
      [] case = "ScreamingSnake" -> is_screaming_snake_case(s)
      [] case = "Snake" -> is_snake_case(s)
      [] case = "Train" -> is_train_case(s)

to_case(case, s) ==
    CASE case = "Camel" -> to_camel_case(s)
      [] case = "Kebab" -> to_kebab_case(s)
      [] case = "Pascal" -> to_pascal_case(s)
      [] case = "ScreamingSnake" -> to_screaming_snake_case(s)
      [] case = "Snake" -> to_snake_case(s)
      [] case = "Train" -> to_train_case(s)

(***************************************************************************)
(* src/src/lib.rs: comments and label groups                               *)
(***************************************************************************)
\* Comment::count when the comment states no count
DefaultCount == 2

\* Match::to_comment for the matches of one file, in order: a Comment is the
\* file and the match, for a match whose args is Ok
RECURSIVE CommentsOfFile(_, _)
CommentsOfFile(path, ms) ==
    IF Len(ms) = 0 THEN << >>
    ELSE (IF Head(ms).args.tag = "Ok"
          THEN <<[file |-> path, m |-> Head(ms)]>>
          ELSE << >>) \o CommentsOfFile(path, Tail(ms))

\* Matches::comments: files in order, the matches of a file in order
RECURSIVE comments(_)
comments(fs) ==
    IF Len(fs) = 0 THEN << >>
    ELSE CommentsOfFile(Head(fs).path, Head(fs).matches) \o comments(Tail(fs))

\* Comment::label as if it were the text of the argument as written
comment_label_untrimmed(comment) == comment.m.args.label.match_

\* Comment::label, Comment::count, Comment::span, Comment::label_arg,
\* Comment::count_arg
comment_label(comment) == comment.m.args.label.val
comment_count(comment) ==
    IF IsSome(comment.m.args.count)
    THEN Unwrap(comment.m.args.count).val
    ELSE DefaultCount
comment_span(comment) == Span(comment.m)
label_arg(comment) == comment.m.args.label
count_arg(comment) == comment.m.args.count

\* Arg::has_extra_whitespace
has_extra_whitespace(arg) == Trim(arg.match_) # arg.match_

\* the loop of group_by_label: entry(label).or_insert(vec![]).push(comment)
RECURSIVE GroupLoop(_, _)
GroupLoop(cs, groups) ==
    IF Len(cs) = 0 THEN groups
    ELSE LET l == comment_label(Head(cs))
             entry == IF l \in DOMAIN groups THEN groups
                      ELSE groups @@ (l :> << >>)
         IN  GroupLoop(Tail(cs), [entry EXCEPT ![l] = Append(@, Head(cs))])

\* group_by_label as if only the first file were grouped
group_by_label_first_file(fs) ==
    GroupLoop(comments(IF Len(fs) = 0 THEN fs ELSE <<Head(fs)>>), << >>)

\* Matches::group_by_label: the map from label to the comments with it
group_by_label(fs) == GroupLoop(comments(fs), << >>)

(***************************************************************************)
(* src/src/main.rs: the rules of the checker                               *)
(***************************************************************************)
\* pluralize
pluralize(word, n) == IF n = 1 THEN word ELSE word \o "s"

\* FilesDB::labels: the (file, span) of every comment, in order
RECURSIVE db_labels(_)
db_labels(cs) ==
    IF Len(cs) = 0 THEN << >>
    ELSE <<[file |-> Head(cs).file, span |-> comment_span(Head(cs))]>>
            \o db_labels(Tail(cs))

\* FilesDB::mismatched_counts_diagnostic: message carries the text and the
\* values formatted into it
mismatched_counts_diagnostic(cs, message) ==
    [message |-> message.text, values |-> message, labels |-> db_labels(cs)]

\* the two messages of report_incorrect_counts
ExpectedFoundMessage(expected, l, found) ==
    [text |-> "expected N comments with label L, found M",
     expected |-> expected, noun |-> pluralize("comment", expected),
     label |-> l, found |-> found]
NotAllSameMessage(l) ==
    [text |-> "not all comments with label L have the same count",
     label |-> l]

\* report_incorrect_counts as if a disagreement were settled by the first
\* member's count
report_incorrect_counts_first(l, cs) ==
    IF Len(cs) = 0 \/ Len(cs) = comment_count(cs[1]) THEN << >>
    ELSE <<mismatched_counts_diagnostic(
              cs, ExpectedFoundMessage(comment_count(cs[1]), l, Len(cs)))>>

\* report_incorrect_counts as if the size were never compared
report_incorrect_counts_lenient(l, cs) ==
    IF Cardinality({comment_count(cs[k]) : k \in 1..Len(cs)}) <= 1 THEN << >>
    ELSE <<mismatched_counts_diagnostic(cs, NotAllSameMessage(l))>>

\* Checker::report_incorrect_counts for one group: the diagnostics emitted
report_incorrect_counts(l, cs) ==
    LET counts == {comment_count(cs[k]) : k \in 1..Len(cs)}
    IN  IF counts = {} THEN << >>
        ELSE IF Cardinality(counts) = 1
        THEN LET expected == CHOOSE c \in counts : TRUE
                 found == Len(cs)
             IN  IF found # expected
                 THEN <<mismatched_counts_diagnostic(
                           cs, ExpectedFoundMessage(expected, l, found))>>
                 ELSE << >>
        ELSE <<mismatched_counts_diagnostic(cs, NotAllSameMessage(l))>>

\* the orders in which a map may be iterated
Orders(S) ==
    {o \in [1..Cardinality(S) -> S] :
        \A i, j \in 1..Cardinality(S) : o[i] = o[j] => i = j}

\* the loop of check over group_by_label, the groups taken in a given order
RECURSIVE CountDiagnostics(_, _)
CountDiagnostics(groups, order) ==
    IF Len(order) = 0 THEN << >>
    ELSE report_incorrect_counts(Head(order), groups[Head(order)])
            \o CountDiagnostics(groups, Tail(order))

\* FilesDB::invalid_case_diagnostic
invalid_case_diagnostic(comment, case) ==
    [message |-> "label doesn't use this case", case |-> case,
     file |-> comment.file, span |-> comment_span(comment),
     note |-> "should be written as", suggestion |-> to_case(case, comment_label(comment))]

\* report_inconsistent_casing: the diagnostics emitted over given comments
RECURSIVE CasingDiagnostics(_, _)
CasingDiagnostics(cs, case) ==
    IF Len(cs) = 0 THEN << >>
    ELSE (IF ~has_case(case, comment_label(Head(cs)))
          THEN <<invalid_case_diagnostic(Head(cs), case)>>
          ELSE << >>) \o CasingDiagnostics(Tail(cs), case)

report_inconsistent_casing(fs, a) ==
    IF IsSome(a.consistent_casing)
    THEN CasingDiagnostics(comments(fs), Unwrap(a.consistent_casing))
    ELSE << >>

\* the label patterns of the runs modelled, and Regex::is_match for them
LowercasePattern == "^[a-z]+$"
is_match(re, s) ==
    CASE re = LowercasePattern ->
            Len(s) > 0 /\ \A k \in 1..Len(s) : is_lowercase(s[k])

\* FilesDB::regex_mismatch_diagnostic
regex_mismatch_diagnostic(comment) ==
    [message |-> "label doesn't match regex",
     file |-> comment.file, span |-> label_arg(comment).span]

\* report_label_regex_mismatch
RECURSIVE RegexDiagnostics(_, _)
RegexDiagnostics(cs, re) ==
    IF Len(cs) = 0 THEN << >>
    ELSE (IF ~is_match(re, comment_label(Head(cs)))
          THEN <<regex_mismatch_diagnostic(Head(cs))>>
          ELSE << >>) \o RegexDiagnostics(Tail(cs), re)

report_label_regex_mismatch(fs, a) ==
    IF IsSome(a.label_pattern)
    THEN RegexDiagnostics(comments(fs), Unwrap(a.label_pattern))
    ELSE << >>

\* FilesDB::extra_whitespace_diagnostic
extra_whitespace_diagnostic(path, arg) ==
    [message |-> "argument has extra whitespace",
     file |-> path, span |-> arg.span]

\* the body of the loop of report_no_extra_whitespace for one comment, as if
\* only the label were looked at
WhitespaceOfCommentLabelOnly(comment) ==
    IF has_extra_whitespace(label_arg(comment))
    THEN <<extra_whitespace_diagnostic(comment.file, label_arg(comment))>>
    ELSE << >>

\* the body of the loop of report_no_extra_whitespace for one comment: the
\* count argument first, then the label
WhitespaceOfComment(comment) ==
    (IF IsSome(count_arg(comment))
        /\ has_extra_whitespace(Unwrap(count_arg(comment)))
     THEN <<extra_whitespace_diagnostic(comment.file, Unwrap(count_arg(comment)))>>
     ELSE << >>)
        \o (IF has_extra_whitespace(label_arg(comment))
            THEN <<extra_whitespace_diagnostic(comment.file, label_arg(comment))>>
            ELSE << >>)

RECURSIVE WhitespaceDiagnostics(_)
WhitespaceDiagnostics(cs) ==
    IF Len(cs) = 0 THEN << >>
    ELSE WhitespaceOfComment(Head(cs)) \o WhitespaceDiagnostics(Tail(cs))

report_no_extra_whitespace(fs, a) ==
    IF a.no_extra_whitespace THEN WhitespaceDiagnostics(comments(fs)) ELSE << >>

(***************************************************************************)
(* State.                                                                  *)
(***************************************************************************)
VARIABLES
    \* kmp.rs, one call: the arguments, the table once built (an Option) and
    \* the value search returned (an Option holding search's Option)
    needle, haystack, kmpTable, kmpResult,
    \* Matcher::parse_args, one call: the arguments and the value returned
    argsOffset, argsText, argsResult,
    \* Matches::collect: Matches.files, the FileMatches of the file being
    \* searched (an Option), the lines of that file read so far, the number
    \* of files walked and of lines read
    files, file, content, walked, linesRead,
    \* main: where the run is
    pc,
    \* Emitter: the diagnostics written so far, and has_errors
    emitted, has_errors,
    \* Checker::args, the CheckArgs of the command line
    checkArgs,
    \* Case::to_case then Case::has_case, one call each: the style, the
    \* text, the text returned and the boolean returned (Options)
    caseStyle, caseText, caseResult, caseHas

kmpVars == <<needle, haystack, kmpTable, kmpResult>>
argsVars == <<argsOffset, argsText, argsResult>>
scanVars == <<files, file, content, walked, linesRead>>
checkVars == <<emitted, has_errors>>
runVars == <<scanVars, pc, checkVars, checkArgs>>
caseVars == <<caseStyle, caseText, caseResult, caseHas>>
vars == <<kmpVars, argsVars, runVars, caseVars>>

\* CheckArgs of codesync check without options
DefaultCheckArgs ==
    [consistent_casing |-> None, no_extra_whitespace |-> FALSE,
     label_pattern |-> None]

(***************************************************************************)
(* The matcher on its own: every needle and haystack within the bounds.    *)
(***************************************************************************)
KmpAlphabet == {"A", "B"}
\* the marker, and a needle whose table needs a fallback to a border
KmpExamples == {PATTERN, <<"A", "A", "B", "A", "A", "A">>}
Needles == (SeqsUpTo(KmpAlphabet, MaxNeedle) \ {<< >>}) \cup KmpExamples
Haystacks == SeqsUpTo(KmpAlphabet, MaxHaystack)

InitKmp ==
    /\ needle \in Needles
    /\ haystack \in Haystacks
    /\ kmpTable = None
    /\ kmpResult = None
    /\ argsOffset = 0
    /\ argsText = << >>
    /\ argsResult = None
    /\ files = << >>
    /\ file = None
    /\ content = << >>
    /\ walked = 0
    /\ linesRead = 0
    /\ pc = "idle"
    /\ emitted = << >>
    /\ has_errors = FALSE
    /\ checkArgs = DefaultCheckArgs
    /\ caseStyle = "Camel"
    /\ caseText = << >>
    /\ caseResult = None
    /\ caseHas = None

\* const PATTERN_KMP_TABLE = kmp::table(PATTERN): the table is built once
BuildTable ==
    /\ kmpTable = None
    /\ kmpTable' = Some(table(needle))
    /\ UNCHANGED <<needle, haystack, kmpResult, argsVars, runVars, caseVars>>

\* one call of kmp::search with the table built for the needle
Search ==
    /\ IsSome(kmpTable)
    /\ kmpResult = None
    /\ kmpResult' = Some(search(haystack, needle, Unwrap(kmpTable)))
    /\ UNCHANGED <<needle, haystack, kmpTable, argsVars, runVars, caseVars>>

(***************************************************************************)
(* The parser on its own: every argument text within the bounds.           *)
(***************************************************************************)
\* the offset the parser is given is that of the byte after the marker
Offsets == {Len(PATTERN), Len(PATTERN) + 3}

TextChars == {"(", ")", ",", " ", "a", "1"}
FreeTexts == SeqsUpTo(TextChars, MaxText)

\* "(a," count ")" for every count text within the bound, and the counts at
\* the edge of u16
CountChars == {"1", " ", "+", "-", "x"}
EdgeCounts == { <<"6", "5", "5", "3", "5">>, <<"6", "5", "5", "3", "6">>,
                <<"+", "6", "5", "5", "3", "5">>, <<"9", "9", "9", "9", "9">>,
                <<"0", "0", "0", "0", "0", "1">> }
CountTexts == SeqsUpTo(CountChars, MaxCountLen) \cup EdgeCounts
WithCount(label, count) == <<"(">> \o label \o <<",">> \o count \o <<")">>
CountedTexts == { WithCount(<<"a">>, c) : c \in CountTexts }

\* "(L)" and "(L, C)" as a caller writes them: C printed in decimal
DigitChar(d) == CHOOSE c \in Digits : DigitVal(c) = d

RECURSIVE ToDecimal(_)
ToDecimal(n) ==
    IF n < 10 THEN <<DigitChar(n)>>
    ELSE ToDecimal(n \div 10) \o <<DigitChar(n % 10)>>

LabelOnly(L) == <<"(">> \o L \o <<")">>
LabelAndCount(L, C) == <<"(">> \o L \o <<",", " ">> \o ToDecimal(C) \o <<")">>

LabelChars == {"a", " ", "("}
Labels == SeqsUpTo(LabelChars, MaxLabel)
Counts == (0..MaxCount) \cup {U16Max - k : k \in 0..MaxCount}

\* The round-trip cases: what a caller writes for label L and optional count
\* C, and the text written.
WrittenCases ==
    {[text |-> LabelOnly(L), L |-> L, C |-> None] : L \in Labels}
        \cup {[text |-> LabelAndCount(L, C), L |-> L, C |-> Some(C)] :
                 L \in Labels, C \in Counts}

WrittenTexts == {c.text : c \in WrittenCases}

ArgsTexts == FreeTexts \cup CountedTexts \cup WrittenTexts


ParseArgs ==
    /\ argsResult = None
    /\ argsResult' = Some(parse_args(argsOffset, argsText))
    /\ UNCHANGED <<argsOffset, argsText, kmpVars, runVars, caseVars>>

InitArgs ==
    /\ argsOffset \in Offsets
    /\ argsText \in ArgsTexts
    /\ argsResult = None
    /\ needle = << >>
    /\ haystack = << >>
    /\ kmpTable = None
    /\ kmpResult = None
    /\ files = << >>
    /\ file = None
    /\ content = << >>
    /\ walked = 0
    /\ linesRead = 0
    /\ pc = "idle"
    /\ emitted = << >>
    /\ has_errors = FALSE
    /\ checkArgs = DefaultCheckArgs
    /\ caseStyle = "Camel"
    /\ caseText = << >>
    /\ caseResult = None
    /\ caseHas = None

(***************************************************************************)
(* A run of `codesync check`: Matches::collect, then Checker::check.       *)
(***************************************************************************)
\* the regular files the walk yields, in the order it yields them
Paths == <<"a.rs", "b.rs">>

\* the lines a file is made of: lines ending in a newline, and last lines of
\* a file that does not end in one
Annotated(before, after) == before \o PATTERN \o after
LineBodies ==
    { Annotated(<< >>, <<"(", "a", ")">>),
      Annotated(<<" ">>, <<"(", "a", ")">>),
      Annotated(<<"C">>, <<"(", "a", ")">>),
      Annotated(<<" ">>, <<"(", "a", ",", " ", "2", ")">>),
      Annotated(<<" ">>, <<"(", "b", ",", "x", ")">>),
      Annotated(<<" ">>, <<"(">>),
      Annotated(<< >>, <<"(", "(", "a", ")">>),
      Annotated(<<" ">>, <<"(", "a", ")", " ">>) \o Annotated(<< >>, <<"(", "a", ")">>),
      <<"x">> }
LastLines ==
    { Annotated(<< >>, << >>),
      Annotated(<<" ">>, << >>),
      Annotated(<<" ">>, <<"(", "a", ")">>) }
Lines == {b \o <<"\n">> : b \in LineBodies} \cup LastLines

RECURSIVE TotalLen(_)
TotalLen(ls) == IF Len(ls) = 0 THEN 0 ELSE Len(Head(ls)) + TotalLen(Tail(ls))

\* SinkMatch::absolute_byte_offset of the next line of the file
LinePos == TotalLen(content)

\* the file ends after a line without a terminator
AtEof ==
    /\ Len(content) > 0
    /\ content[Len(content)] = WithoutTerminator(content[Len(content)])

InitRun ==
    /\ files = << >>
    /\ file = None
    /\ content = << >>
    /\ walked = 0
    /\ linesRead = 0
    /\ pc = "walk"
    /\ emitted = << >>
    /\ has_errors = FALSE
    /\ needle = << >>
    /\ haystack = << >>
    /\ kmpTable = None
    /\ kmpResult = None
    /\ argsOffset = 0
    /\ argsText = << >>
    /\ argsResult = None
    /\ checkArgs = DefaultCheckArgs
    /\ caseStyle = "Camel"
    /\ caseText = << >>
    /\ caseResult = None
    /\ caseHas = None

\* Matches::collect: the walk yields the next regular file
OpenFile ==
    /\ pc = "walk"
    /\ walked < Len(Paths)
    /\ file' = Some(NewFileMatches(Paths[walked + 1]))
    /\ content' = << >>
    /\ walked' = walked + 1
    /\ pc' = "search"
    /\ UNCHANGED <<files, linesRead, checkVars, kmpVars, argsVars, caseVars, checkArgs>>

\* the searcher reads a line the matcher matches: Sink::matched runs the
\* closure, which pushes parse_line(byte_offset, line), or panics in it
MatchedLine(line) ==
    /\ pc = "search"
    /\ ~AtEof
    /\ linesRead < MaxLines
    /\ IsMatchingLine(line)
    /\ LET m == parse_line(LinePos, line)
       IN  IF IsSome(m)
           THEN /\ file' = Some([Unwrap(file) EXCEPT
                                   !.matches = Append(@, Unwrap(m))])
                /\ pc' = pc
           ELSE /\ file' = file
                /\ pc' = "panic"
    /\ content' = Append(content, line)
    /\ linesRead' = linesRead + 1
    /\ UNCHANGED <<files, walked, checkVars, kmpVars, argsVars, caseVars, checkArgs>>

\* the searcher reads a line the matcher does not match
UnmatchedLine(line) ==
    /\ pc = "search"
    /\ ~AtEof
    /\ linesRead < MaxLines
    /\ ~IsMatchingLine(line)
    /\ content' = Append(content, line)
    /\ linesRead' = linesRead + 1
    /\ UNCHANGED <<files, file, walked, pc, checkVars, kmpVars, argsVars, caseVars, checkArgs>>

\* search_path returns: the file is kept if it has matches
CloseFile ==
    /\ pc = "search"
    /\ files' = IF Len(Unwrap(file).matches) > 0
                THEN Append(files, Unwrap(file))
                ELSE files
    /\ file' = None
    /\ content' = << >>
    /\ pc' = "walk"
    /\ UNCHANGED <<walked, linesRead, checkVars, kmpVars, argsVars, caseVars, checkArgs>>

\* the walk ends: collect returns Ok(Matches) and main calls Checker::check
FinishWalk ==
    /\ pc = "walk"
    /\ pc' = "check"
    /\ UNCHANGED <<scanVars, checkVars, kmpVars, argsVars, caseVars, checkArgs>>

\* Checker::report_invalid_matches: one diagnostic per invalid match, each
\* emitted (Emitter::emit sets has_errors)
ReportInvalidMatches ==
    /\ pc = "check"
    /\ emitted' = emitted \o InvalidDiagnostics(files)
    /\ has_errors' = (has_errors \/ Len(InvalidDiagnostics(files)) > 0)
    /\ pc' = "invalid_reported"
    /\ UNCHANGED <<scanVars, kmpVars, argsVars, caseVars, checkArgs>>

\* abort_if_errors after report_invalid_matches as if it never exited
ContinueAfterInvalid ==
    /\ pc = "invalid_reported"
    /\ pc' = "counts"
    /\ UNCHANGED <<scanVars, checkVars, kmpVars, argsVars, caseVars, checkArgs>>

\* Checker::abort_if_errors after report_invalid_matches: exit(1) if
\* anything was emitted
AbortIfInvalid ==
    /\ pc = "invalid_reported"
    /\ pc' = IF has_errors THEN "exit" ELSE "counts"
    /\ UNCHANGED <<scanVars, checkVars, kmpVars, argsVars, caseVars, checkArgs>>

\* the loop of check over matches.group_by_label(): the map is iterated in
\* an order of its own, report_incorrect_counts emits for each group
ReportIncorrectCounts ==
    /\ pc = "counts"
    /\ \E order \in Orders(DOMAIN group_by_label(files)) :
          LET ds == CountDiagnostics(group_by_label(files), order)
          IN  /\ emitted' = emitted \o ds
              /\ has_errors' = (has_errors \/ Len(ds) > 0)
    /\ pc' = "counts_reported"
    /\ UNCHANGED <<scanVars, kmpVars, argsVars, caseVars, checkArgs>>

\* abort_if_errors after the counts
AbortIfCounts ==
    /\ pc = "counts_reported"
    /\ pc' = IF has_errors THEN "exit" ELSE "casing"
    /\ UNCHANGED <<scanVars, checkVars, kmpVars, argsVars, caseVars, checkArgs>>

\* Checker::report_inconsistent_casing
ReportInconsistentCasing ==
    /\ pc = "casing"
    /\ LET ds == report_inconsistent_casing(files, checkArgs)
       IN  /\ emitted' = emitted \o ds
           /\ has_errors' = (has_errors \/ Len(ds) > 0)
    /\ pc' = "casing_reported"
    /\ UNCHANGED <<scanVars, kmpVars, argsVars, caseVars, checkArgs>>

\* abort_if_errors after the casing
AbortIfCasing ==
    /\ pc = "casing_reported"
    /\ pc' = IF has_errors THEN "exit" ELSE "pattern"
    /\ UNCHANGED <<scanVars, checkVars, kmpVars, argsVars, caseVars, checkArgs>>

\* Checker::report_label_regex_mismatch
ReportLabelRegexMismatch ==
    /\ pc = "pattern"
    /\ LET ds == report_label_regex_mismatch(files, checkArgs)
       IN  /\ emitted' = emitted \o ds
           /\ has_errors' = (has_errors \/ Len(ds) > 0)
    /\ pc' = "whitespace"
    /\ UNCHANGED <<scanVars, kmpVars, argsVars, caseVars, checkArgs>>

\* Checker::report_no_extra_whitespace
ReportNoExtraWhitespace ==
    /\ pc = "whitespace"
    /\ LET ds == report_no_extra_whitespace(files, checkArgs)
       IN  /\ emitted' = emitted \o ds
           /\ has_errors' = (has_errors \/ Len(ds) > 0)
    /\ pc' = "style_reported"
    /\ UNCHANGED <<scanVars, kmpVars, argsVars, caseVars, checkArgs>>

\* the last abort_if_errors as if it never exited
ReturnOk ==
    /\ pc = "style_reported"
    /\ pc' = "ok"
    /\ UNCHANGED <<scanVars, checkVars, kmpVars, argsVars, caseVars, checkArgs>>

\* the last abort_if_errors: exit(1), or check returns Ok(()) and so does
\* main
AbortIfStyle ==
    /\ pc = "style_reported"
    /\ pc' = IF has_errors THEN "exit" ELSE "ok"
    /\ UNCHANGED <<scanVars, checkVars, kmpVars, argsVars, caseVars, checkArgs>>

\* Checker::check
NextCheck ==
    \/ ReportInvalidMatches
    \/ AbortIfInvalid
    \/ ReportIncorrectCounts
    \/ AbortIfCounts
    \/ ReportInconsistentCasing
    \/ AbortIfCasing
    \/ ReportLabelRegexMismatch
    \/ ReportNoExtraWhitespace
    \/ AbortIfStyle

NextRun ==
    \/ OpenFile
    \/ \E line \in Lines : MatchedLine(line)
    \/ \E line \in Lines : UnmatchedLine(line)
    \/ CloseFile
    \/ FinishWalk
    \/ NextCheck

(***************************************************************************)
(* Checker::check on its own: the Matches of every two files within the    *)
(* bounds, under every CheckArgs.                                          *)
(***************************************************************************)
\* search_path over the lines of a file: what the searcher and the sink make
\* of them, line by line
RECURSIVE ScanLines(_, _, _)
ScanLines(ls, pos, fm) ==
    IF Len(ls) = 0 THEN fm
    ELSE ScanLines(Tail(ls), pos + Len(Head(ls)),
                   IF IsMatchingLine(Head(ls))
                   THEN [fm EXCEPT !.matches =
                            Append(@, Unwrap(parse_line(pos, Head(ls))))]
                   ELSE fm)

\* Matches::collect over the files of Paths from the k-th on, contents[k]
\* being the lines of the k-th
RECURSIVE collect(_, _)
collect(contents, k) ==
    IF k > Len(contents) THEN << >>
    ELSE LET fm == ScanLines(contents[k], 0, NewFileMatches(Paths[k]))
         IN  (IF Len(fm.matches) > 0 THEN <<fm>> ELSE << >>)
                \o collect(contents, k + 1)

CheckLineBodies ==
    { Annotated(<<" ">>, <<"(", "a", ")">>),
      Annotated(<<" ">>, <<"(", "a", ",", " ", "1", ")">>),
      Annotated(<<" ">>, <<"(", "a", ",", "3", ")">>),
      Annotated(<<" ">>, <<"(", " ", "B", ",", " ", "1", ")">>),
      Annotated(<<" ">>, <<"(">>) }
CheckLines == {b \o <<"\n">> : b \in CheckLineBodies}

\* the lines of a.rs and of b.rs
CheckContents ==
    {c \in SeqsUpTo(CheckLines, MaxCheckLines) \X SeqsUpTo(CheckLines, MaxCheckLines) :
        Len(c[1]) + Len(c[2]) <= MaxCheckLines}

CheckMatches == {collect(c, 1) : c \in CheckContents}

\* struct CheckArgs as the command line gives it
CheckArgsValues ==
    [consistent_casing : {None, Some("Camel")},
     no_extra_whitespace : BOOLEAN,
     label_pattern : {None, Some(LowercasePattern)}]

InitCheck ==
    /\ files \in CheckMatches
    /\ checkArgs \in CheckArgsValues
    /\ pc = "check"
    /\ emitted = << >>
    /\ has_errors = FALSE
    /\ file = None
    /\ content = << >>
    /\ walked = Len(Paths)
    /\ linesRead = 0
    /\ needle = << >>
    /\ haystack = << >>
    /\ kmpTable = None
    /\ kmpResult = None
    /\ argsOffset = 0
    /\ argsText = << >>
    /\ argsResult = None
    /\ caseStyle = "Camel"
    /\ caseText = << >>
    /\ caseResult = None
    /\ caseHas = None

(***************************************************************************)
(* The case converter on its own: every style, every text within the bound.*)
(***************************************************************************)
CaseChars == {"a", "B", "1", "_", "-"}
CaseExamples ==
    { <<"f", "o", "o", "B", "a", "r", "3">>,
      <<"a", "b", "c", "1", "2", "3", "_", "x", "y", "z">>,
      <<"f", "o", "o", "B", "A", "R">>,
      <<"F", "O", "O", "_", "B", "A", "R", "1">>,
      <<"f", "o", "o", "-", "b", "a", "r", "1">> }
CaseTexts == SeqsUpTo(CaseChars, MaxCaseLen) \cup CaseExamples

InitCase ==
    /\ caseStyle \in Cases
    /\ caseText \in CaseTexts
    /\ caseResult = None
    /\ caseHas = None
    /\ needle = << >>
    /\ haystack = << >>
    /\ kmpTable = None
    /\ kmpResult = None
    /\ argsOffset = 0
    /\ argsText = << >>
    /\ argsResult = None
    /\ files = << >>
    /\ file = None
    /\ content = << >>
    /\ walked = 0
    /\ linesRead = 0
    /\ pc = "idle"
    /\ emitted = << >>
    /\ has_errors = FALSE
    /\ checkArgs = DefaultCheckArgs

\* Case::to_case on the text
ToCase ==
    /\ caseResult = None
    /\ caseResult' = Some(to_case(caseStyle, caseText))
    /\ UNCHANGED <<caseStyle, caseText, caseHas, kmpVars, argsVars, runVars>>

\* Case::has_case on what to_case returned
HasCase ==
    /\ IsSome(caseResult)
    /\ caseHas = None
    /\ caseHas' = Some(has_case(caseStyle, Unwrap(caseResult)))
    /\ UNCHANGED <<caseStyle, caseText, caseResult, kmpVars, argsVars, runVars>>

(***************************************************************************)
(* Specifications.                                                         *)
(***************************************************************************)
NextKmp == BuildTable \/ Search
SpecKmp == InitKmp /\ [][NextKmp]_vars

NextArgs == ParseArgs
SpecArgs == InitArgs /\ [][NextArgs]_vars

Spec == InitRun /\ [][NextRun]_vars

SpecCheck == InitCheck /\ [][NextCheck]_vars

NextCase == ToCase \/ HasCase
SpecCase == InitCase /\ [][NextCase]_vars

(***************************************************************************)
(* What the matcher is to compute, stated without the algorithm.           *)
(***************************************************************************)
\* n occurs in h at offset i
OccursAt(h, n, i) ==
    /\ i + Len(n) <= Len(h)
    /\ \A k \in 1..Len(n) : h[i + k] = n[k]

Occurrences(h, n) == {i \in 0..Len(h) : OccursAt(h, n, i)}

Searched == IsSome(kmpResult)

\* C1: for every haystack that contains the needle, search returns Some(i)
\* with i the offset of the first occurrence.
C1_SearchFindsFirstOccurrence ==
    (Searched /\ Occurrences(haystack, needle) # {})
        => Unwrap(kmpResult) = Some(Min(Occurrences(haystack, needle)))

\* C2: for every haystack that does not contain the needle, search returns
\* None.
C2_SearchNoFalseMatch ==
    (Searched /\ Occurrences(haystack, needle) = {})
        => Unwrap(kmpResult) = None

(***************************************************************************)
(* What the parser is to compute, stated without the matching procedure.   *)
(***************************************************************************)
Parsed == IsSome(argsResult)
Result == Unwrap(argsResult)

IsLabelText(s) == Len(s) > 0 /\ \A k \in 1..Len(s) : s[k] \notin {",", ")"}
IsCountText(s) == \A k \in 1..Len(s) : s[k] # ")"

\* the first n characters of h are "(" label ")"
ShapeLabel(h, n) ==
    /\ n \in 1..Len(h)
    /\ h[1] = "("
    /\ h[n] = ")"
    /\ IsLabelText(SubSeq(h, 2, n - 1))

\* the first n characters of h are "(" label "," count ")", the comma being
\* the i-th character
ShapeLabelCount(h, i, n) ==
    /\ i \in 1..Len(h)
    /\ n \in 1..Len(h)
    /\ i < n
    /\ h[1] = "("
    /\ h[i] = ","
    /\ h[n] = ")"
    /\ IsLabelText(SubSeq(h, 2, i - 1))
    /\ IsCountText(SubSeq(h, i + 1, n - 1))

HasShape(h) ==
    \/ \E n \in 1..Len(h) : ShapeLabel(h, n)
    \/ \E i, n \in 1..Len(h) : ShapeLabelCount(h, i, n)

AllDigits(s) == Len(s) > 0 /\ \A k \in 1..Len(s) : s[k] \in Digits

\* the value of a digit string, by positional weight
RECURSIVE Pow10(_)
Pow10(k) == IF k = 0 THEN 1 ELSE 10 * Pow10(k - 1)

RECURSIVE WeightedSum(_, _)
WeightedSum(s, k) ==
    IF k > Len(s) THEN 0
    ELSE DigitVal(s[k]) * Pow10(Len(s) - k) + WeightedSum(s, k + 1)

DecimalValue(s) == WeightedSum(s, 1)

\* C8: parse_args returns Malformed exactly when the text does not begin with
\* "(" label ["," count] ")", label a non-empty run without "," and ")".
C8_MalformedIffNoShape ==
    Parsed => (Result.tag = "Malformed" <=> ~HasShape(argsText))

\* C8 witness: "()" was parsed and is Malformed.
C8_Witness ==
    /\ Parsed
    /\ argsText = <<"(", ")">>
    /\ Result.tag = "Malformed"

\* C9: whenever parse_args returns Ok, the trimmed label is not empty.
C9_OkLabelNotEmpty ==
    (Parsed /\ Result.tag = "Ok") => Result.label.val # << >>

RoundTrips(c) ==
    /\ Result.tag = "Ok"
    /\ Result.label.val = Trim(c.L)
    /\ IF IsSome(c.C)
       THEN IsSome(Result.count) /\ Unwrap(Result.count).val = Unwrap(c.C)
       ELSE Result.count = None

\* C6 as amended: for any non-empty label L without "," and ")" and any count
\* C in 0..65535, "(L)" parses to Ok with label.val = L.trim() and no count,
\* and "(L, C)" to Ok with label.val = L.trim() and count.val = C.
C6_RoundTripNonEmptyLabel ==
    Parsed => \A c \in WrittenCases :
                 (c.text = argsText /\ c.L # << >>) => RoundTrips(c)

C6_Witness ==
    /\ Parsed
    /\ argsText = LabelAndCount(<<" ", "a">>, U16Max)
    /\ Result.tag = "Ok"
    /\ Unwrap(Result.count).val = U16Max

\* C6 as stated: the same for any label L without "," and ")", the empty one
\* included.
C6_RoundTripAnyLabel ==
    Parsed => \A c \in WrittenCases : c.text = argsText => RoundTrips(c)

\* The second argument of a text of the shape "(" label "," count ")": raw
\* text, and span relative to the start of the text.
IsUnsignedText(t) ==
    \/ AllDigits(t)
    \/ Len(t) > 1 /\ t[1] = "+" /\ AllDigits(Tail(t))

UnsignedValue(t) == IF t[1] = "+" THEN DecimalValue(Tail(t)) ELSE DecimalValue(t)

\* C7 as stated: a structurally matched text whose second argument is not
\* all digits yields InvalidCount with the absolute span of that argument, and
\* an all-digit second argument yields InvalidCount only above 65535.
C7_NotAllDigitsIsInvalidCount ==
    Parsed => \A i, n \in 1..Len(argsText) :
        ShapeLabelCount(argsText, i, n) =>
            LET t == Trim(SubSeq(argsText, i + 1, n - 1))
            IN  /\ ~AllDigits(t) =>
                      Result = InvalidCount(argsOffset + i, argsOffset + n - 1)
                /\ (AllDigits(t) /\ DecimalValue(t) <= U16Max) =>
                      Result.tag # "InvalidCount"

\* C7 as amended: the same with "all digits" read as a non-empty run of
\* digits after an optional single "+", surrounding whitespace ignored.
C7_NotUnsignedIsInvalidCount ==
    Parsed => \A i, n \in 1..Len(argsText) :
        ShapeLabelCount(argsText, i, n) =>
            LET t == Trim(SubSeq(argsText, i + 1, n - 1))
            IN  /\ ~IsUnsignedText(t) =>
                      Result = InvalidCount(argsOffset + i, argsOffset + n - 1)
                /\ (IsUnsignedText(t) /\ UnsignedValue(t) <= U16Max) =>
                      Result.tag # "InvalidCount"

C7_Witness ==
    /\ Parsed
    /\ argsText = WithCount(<<"a">>, <<" ", "x">>)
    /\ Result = InvalidCount(argsOffset + 3, argsOffset + 5)

(***************************************************************************)
(* What scanning a file is to produce, stated over the lines read.         *)
(***************************************************************************)
\* the lines of the file read so far that the searcher handed to the sink
Reported == {k \in 1..Len(content) : IsMatchingLine(content[k])}

\* the j-th of them
NthReported(j) ==
    CHOOSE k \in Reported : Cardinality({i \in Reported : i <= k}) = j

\* the absolute offset at which line k of the file starts
LineStart(k) == TotalLen(SubSeq(content, 1, k - 1))

\* where the marker first occurs in a line
MarkerPos(line) == Min(Occurrences(line, PATTERN))

Searching == pc = "search" /\ IsSome(file)
FoundMatches == Unwrap(file).matches

\* C3: the Match of a matched line has byte_offset = line start + position
\* of the marker's first byte in the line, and its args are those of the
\* text right after the marker's last byte.
C3_MatchOffsetIsMarkerOffset ==
    Searching => \A j \in 1..Len(FoundMatches) :
        LET k == NthReported(j)
            at == LineStart(k) + MarkerPos(content[k])
        IN  /\ FoundMatches[j].byte_offset = at
            /\ FoundMatches[j].args =
                  parse_args(at + Len(PATTERN),
                             Slice(content[k],
                                   MarkerPos(content[k]) + Len(PATTERN),
                                   Len(content[k])))

\* C4: scanning never crashes: every line the matcher reports gets a Match
\* whose args is Ok, Malformed or InvalidCount.
C4_ScanNeverPanics ==
    /\ pc # "panic"
    /\ Searching => \A j \in 1..Len(FoundMatches) :
          FoundMatches[j].args.tag \in {"Ok", "Malformed", "InvalidCount"}

\* C5: a line with k occurrences of the marker contributes k Matches: the
\* matches of the file are as many as the occurrences in the lines the
\* searcher reported.
RECURSIVE OccurrencesIn(_)
OccurrencesIn(ks) ==
    IF ks = {} THEN 0
    ELSE LET k == CHOOSE x \in ks : TRUE
         IN  Cardinality(Occurrences(content[k], PATTERN))
                + OccurrencesIn(ks \ {k})

C5_OneMatchPerOccurrence ==
    Searching => Len(FoundMatches) = OccurrencesIn(Reported)

(***************************************************************************)
(* What report_invalid_matches is to emit, stated over Matches.            *)
(***************************************************************************)
\* the matches of Matches: <<f, i>> is match i of file f
Positions ==
    {p \in (1..Len(files)) \X (1..MaxLines) : p[2] <= Len(files[p[1]].matches)}
MatchAt(p) == files[p[1]].matches[p[2]]
ErrPositions == {p \in Positions : MatchAt(p).args.tag # "Ok"}

\* the finding an invalid match is to yield
FindingFor(p) ==
    LET m == MatchAt(p)
    IN  IF m.args.tag = "Malformed"
        THEN [message |-> "malformed codesync comment",
              file |-> files[p[1]].path,
              span |-> <<m.byte_offset, m.byte_offset + Len(PATTERN)>>]
        ELSE [message |-> "invalid count",
              file |-> files[p[1]].path,
              span |-> <<m.args.start, m.args.end>>]

\* C10: report_invalid_matches emits exactly one finding for every Match
\* whose args is Err and none for an Ok one; a Malformed finding has the
\* match's own span, an InvalidCount finding the span the error carries.
C10_OneFindingPerInvalidMatch ==
    pc = "invalid_reported" =>
        /\ Len(emitted) = Cardinality(ErrPositions)
        /\ \A p \in ErrPositions :
              Cardinality({k \in 1..Len(emitted) : emitted[k] = FindingFor(p)}) = 1

C10_Witness ==
    /\ pc = "invalid_reported"
    /\ Len(emitted) = 2
    /\ \E p \in Positions : MatchAt(p).args.tag = "Ok"
    /\ \E p \in Positions : MatchAt(p).args.tag = "Malformed"
    /\ \E p \in Positions : MatchAt(p).args.tag = "InvalidCount"

(***************************************************************************)
(* What the count rule is to emit, stated over Matches.                    *)
(***************************************************************************)
\* the matches of Matches: <<f, i>> is match i of file f
MatchPositions ==
    UNION {{<<f, i>> : i \in 1..Len(files[f].matches)} : f \in 1..Len(files)}
OkPositions == {p \in MatchPositions : MatchAt(p).args.tag = "Ok"}

\* the labels of the valid comments, and the members of a label's group
GroupLabels == {MatchAt(p).args.label.val : p \in OkPositions}
GroupOf(l) == {p \in OkPositions : MatchAt(p).args.label.val = l}

\* the count a comment declares: the one written, or 2
DeclaredCount(p) ==
    IF MatchAt(p).args.count = None THEN 2
    ELSE Unwrap(MatchAt(p).args.count).val
DeclaredCounts(l) == {DeclaredCount(p) : p \in GroupOf(l)}

\* where a member is: its file and the span of the marker and its arguments
MemberLocation(p) ==
    [file |-> files[p[1]].path,
     span |-> <<MatchAt(p).byte_offset,
                MatchAt(p).byte_offset + Len(PATTERN) + MatchAt(p).args.len>>]

ExpectedFoundText == "expected N comments with label L, found M"
NotAllSameText == "not all comments with label L have the same count"
IsCountFinding(d) == d.message \in {ExpectedFoundText, NotAllSameText}

\* the count findings emitted for a label
CountFindings(l) ==
    {k \in 1..Len(emitted) :
        IsCountFinding(emitted[k]) /\ emitted[k].values.label = l}

CountsReported == pc = "counts_reported"

\* C11: for a group whose members all declare the same count N, the count
\* rule emits one finding if the group has not N members and none if it has
\* N; the finding states expected N and found the size of the group, and is
\* localized at every member.
C11_ConsistentGroupFindingIffSizeDiffers ==
    CountsReported => \A l \in GroupLabels :
        Cardinality(DeclaredCounts(l)) = 1 =>
            LET N == CHOOSE c \in DeclaredCounts(l) : TRUE
                size == Cardinality(GroupOf(l))
            IN  /\ Cardinality(CountFindings(l)) = (IF size # N THEN 1 ELSE 0)
                /\ \A k \in CountFindings(l) :
                      /\ emitted[k].message = ExpectedFoundText
                      /\ emitted[k].values.expected = N
                      /\ emitted[k].values.found = size
                      /\ emitted[k].values.noun =
                            (IF N = 1 THEN "comment" ELSE "comments")
                      /\ {emitted[k].labels[i] : i \in 1..Len(emitted[k].labels)}
                            = {MemberLocation(p) : p \in GroupOf(l)}

\* C11 witness: a group of one member declaring 1 got no finding, in a run
\* where a group of one member declaring 2 got one.
C11_Witness ==
    /\ CountsReported
    /\ \E l \in GroupLabels :
          /\ DeclaredCounts(l) = {1}
          /\ Cardinality(GroupOf(l)) = 1
          /\ CountFindings(l) = {}
    /\ \E l \in GroupLabels :
          /\ DeclaredCounts(l) = {2}
          /\ Cardinality(GroupOf(l)) = 1
          /\ Cardinality(CountFindings(l)) = 1

\* a group with one member's count changed to c
WithMemberCount(cs, i, c) ==
    [cs EXCEPT ![i].m.args.count =
        Some([val |-> c, match_ |-> ToDecimal(c), span |-> <<0, 0>>])]

\* the counts a member's count is changed to
OtherCounts == 0..MaxCount

\* C12: a group whose members declare more than one distinct count gets
\* exactly one finding, the disagreement, whatever its size; and changing
\* the count of any one member of a group of N members all declaring N to a
\* different value makes the count rule emit at least one finding.
C12_DisagreementAlwaysOneFinding ==
    CountsReported =>
        /\ \A l \in GroupLabels :
              Cardinality(DeclaredCounts(l)) > 1 =>
                  /\ Cardinality(CountFindings(l)) = 1
                  /\ \A k \in CountFindings(l) :
                        /\ emitted[k].message = NotAllSameText
                        /\ {emitted[k].labels[i] : i \in 1..Len(emitted[k].labels)}
                              = {MemberLocation(p) : p \in GroupOf(l)}
        /\ \A l \in GroupLabels :
              (DeclaredCounts(l) = {Cardinality(GroupOf(l))}) =>
                  LET cs == group_by_label(files)[l]
                  IN  \A i \in 1..Len(cs) :
                          \A c \in OtherCounts \ DeclaredCounts(l) :
                              Len(report_incorrect_counts(
                                      l, WithMemberCount(cs, i, c))) >= 1

\* C12 witness: two members, one declaring 2 and one declaring 3: the size
\* equals one of the counts, and the one finding is the disagreement.
C12_Witness ==
    /\ CountsReported
    /\ \E l \in GroupLabels :
          /\ DeclaredCounts(l) = {2, 3}
          /\ Cardinality(GroupOf(l)) = 2
          /\ Cardinality(CountFindings(l)) = 1

(***************************************************************************)
(* What a run of check is to emit, stage by stage.                         *)
(***************************************************************************)
MalformedText == "malformed codesync comment"
InvalidCountText == "invalid count"
CasingText == "label doesn't use this case"
WhitespaceText == "argument has extra whitespace"
PatternText == "label doesn't match regex"

IsInvalidFinding(d) == d.message \in {MalformedText, InvalidCountText}
IsCasingFinding(d) == d.message = CasingText
IsWhitespaceFinding(d) == d.message = WhitespaceText
IsPatternFinding(d) == d.message = PatternText
IsStyleFinding(d) ==
    IsCasingFinding(d) \/ IsWhitespaceFinding(d) \/ IsPatternFinding(d)

AnyEmitted(P(_)) == \E k \in 1..Len(emitted) : P(emitted[k])
AllEmitted(P(_)) == \A k \in 1..Len(emitted) : P(emitted[k])

Terminated == pc \in {"exit", "ok"}

\* C13: check runs the invalid-match stage, then the count stage, then the
\* style stage, and fails fast: once an invalid-match finding is emitted no
\* count or style finding is emitted in the run, and once a count finding is
\* emitted no casing, whitespace or pattern finding is.
C13_FailFast ==
    /\ pc = "check" => emitted = << >>
    /\ pc = "invalid_reported" => AllEmitted(IsInvalidFinding)
    /\ pc \in {"counts", "counts_reported"} => ~AnyEmitted(IsStyleFinding)
    /\ AnyEmitted(IsInvalidFinding) =>
          ~AnyEmitted(IsCountFinding) /\ ~AnyEmitted(IsStyleFinding)
    /\ AnyEmitted(IsCountFinding) => ~AnyEmitted(IsStyleFinding)

\* the first or the last character of s is whitespace
HasEdgeWhitespace(s) ==
    Len(s) > 0 /\ (s[1] \in Whitespace \/ s[Len(s)] \in Whitespace)

\* the arguments of the valid comments written with whitespace around them,
\* each as the file and the span of the argument
WhitespaceArgs ==
    {[file |-> files[p[1]].path, span |-> MatchAt(p).args.label.span] :
        p \in {q \in OkPositions : HasEdgeWhitespace(MatchAt(q).args.label.match_)}}
    \cup
    {[file |-> files[p[1]].path, span |-> Unwrap(MatchAt(p).args.count).span] :
        p \in {q \in OkPositions :
                 /\ MatchAt(q).args.count # None
                 /\ HasEdgeWhitespace(Unwrap(MatchAt(q).args.count).match_)}}

\* the valid comments whose label is not in the configured case, and those
\* whose label does not match the configured pattern
CasingViolations ==
    {p \in OkPositions :
        /\ checkArgs.consistent_casing # None
        /\ ~has_case(Unwrap(checkArgs.consistent_casing),
                     MatchAt(p).args.label.val)}
PatternViolations ==
    {p \in OkPositions :
        /\ checkArgs.label_pattern # None
        /\ ~is_match(Unwrap(checkArgs.label_pattern), MatchAt(p).args.label.val)}

\* a finding with this message is emitted at this file and span
FindingAt(message, path, span) ==
    \E k \in 1..Len(emitted) :
        /\ emitted[k].message = message
        /\ emitted[k].file = path
        /\ emitted[k].span = span

AllStyleEnabled ==
    /\ checkArgs.consistent_casing # None
    /\ checkArgs.no_extra_whitespace
    /\ checkArgs.label_pattern # None

\* C13 witness: the run exited on an invalid-match finding although a group
\* has a wrong size and, all style rules on, an argument has extra
\* whitespace.
C13_Witness ==
    /\ pc = "exit"
    /\ AnyEmitted(IsInvalidFinding)
    /\ \E l \in GroupLabels : DeclaredCounts(l) # {Cardinality(GroupOf(l))}
    /\ AllStyleEnabled
    /\ WhitespaceArgs # {}

\* C14: with casing, whitespace and pattern rules all enabled and no
\* invalid-match or count finding, a run that has ended has emitted a finding
\* for every casing violation, every argument with extra whitespace and
\* every pattern violation present.
C14_StyleRulesIndependent ==
    (/\ Terminated
     /\ AllStyleEnabled
     /\ ~AnyEmitted(IsInvalidFinding)
     /\ ~AnyEmitted(IsCountFinding)) =>
        /\ \A p \in CasingViolations :
              FindingAt(CasingText, files[p[1]].path, MemberLocation(p).span)
        /\ \A a \in WhitespaceArgs : FindingAt(WhitespaceText, a.file, a.span)
        /\ \A p \in PatternViolations :
              FindingAt(PatternText, files[p[1]].path, MatchAt(p).args.label.span)

WhitespaceFindings ==
    {k \in 1..Len(emitted) : IsWhitespaceFinding(emitted[k])}

\* C16: with whitespace strictness on, report_no_extra_whitespace emits
\* exactly one finding, at the argument's span, for every label and count
\* of a valid comment written with leading or trailing whitespace, and none
\* for any other argument; with the flag off it emits none.
C16_OneFindingPerPaddedArgument ==
    pc = "style_reported" =>
        IF checkArgs.no_extra_whitespace
        THEN /\ Cardinality(WhitespaceFindings) = Cardinality(WhitespaceArgs)
             /\ \A a \in WhitespaceArgs :
                   Cardinality({k \in WhitespaceFindings :
                                   /\ emitted[k].file = a.file
                                   /\ emitted[k].span = a.span}) = 1
        ELSE WhitespaceFindings = {}

\* C16 witness: of three valid comments one has whitespace around its label
\* and its count, and exactly these two arguments got a finding.
C16_Witness ==
    /\ pc = "style_reported"
    /\ checkArgs.no_extra_whitespace
    /\ Cardinality(OkPositions) = 3
    /\ Cardinality(WhitespaceArgs) = 2
    /\ Cardinality(WhitespaceFindings) = 2

(***************************************************************************)
(* Label groups and count findings under another order of the files.       *)
(***************************************************************************)
\* the orderings of the files of Matches
FileOrderings ==
    {[i \in 1..Len(files) |-> files[o[i]]] : o \in Orders(1..Len(files))}

Members(cs) == {cs[i] : i \in 1..Len(cs)}

\* a count finding up to the order of its member locations
UpToOrder(d) ==
    [message |-> d.message, values |-> d.values,
     labels |-> {d.labels[i] : i \in 1..Len(d.labels)}]

\* the count findings of Matches with the files in a given order
CountFindingsOf(fs) ==
    LET groups == group_by_label(fs)
        ds == CountDiagnostics(groups, CHOOSE o \in Orders(DOMAIN groups) : TRUE)
    IN  {UpToOrder(ds[k]) : k \in 1..Len(ds)}

\* C17: for every ordering of the same files, group_by_label yields the same
\* labels with the same members, and the count stage emits the same set of
\* findings (label, message, member locations up to order).
C17_GroupingIndependentOfFileOrder ==
    \A fs \in FileOrderings :
        /\ DOMAIN group_by_label(fs) = DOMAIN group_by_label(files)
        /\ \A l \in DOMAIN group_by_label(files) :
              Members(group_by_label(fs)[l]) = Members(group_by_label(files)[l])
        /\ CountsReported =>
              {UpToOrder(emitted[k]) : k \in 1..Len(emitted)} = CountFindingsOf(fs)

\* C17 witness: two files, a label with members in both, and a count
\* finding emitted for it.
C17_Witness ==
    /\ CountsReported
    /\ Len(files) = 2
    /\ \E l \in GroupLabels :
          /\ \E p, q \in GroupOf(l) : p[1] = 1 /\ q[1] = 2
          /\ CountFindings(l) # {}

(***************************************************************************)
(* How a run of check ends.                                                *)
(***************************************************************************)
InvalidPositions == MatchPositions \ OkPositions

\* no rule that is enabled has anything to report
NothingToReport ==
    /\ InvalidPositions = {}
    /\ \A l \in GroupLabels : DeclaredCounts(l) = {Cardinality(GroupOf(l))}
    /\ CasingViolations = {}
    /\ PatternViolations = {}
    /\ checkArgs.no_extra_whitespace => WhitespaceArgs = {}

\* how far check has got
StageRank ==
    CASE pc = "check" -> 0
      [] pc = "invalid_reported" -> 1
      [] pc = "counts" -> 2
      [] pc = "counts_reported" -> 3
      [] pc = "casing" -> 4
      [] pc = "casing_reported" -> 5
      [] pc = "pattern" -> 6
      [] pc = "whitespace" -> 7
      [] pc = "style_reported" -> 8
      [] pc \in {"exit", "ok"} -> 9

\* C18: check ends (every step takes it one stage further), by exit(1)
\* exactly if at least one finding was emitted and by returning Ok
\* otherwise; has_errors says whether a finding was emitted; and it returns
\* Ok only when no enabled rule has anything to report.
C18_ExitIffFinding ==
    /\ [](has_errors <=> emitted # << >>)
    /\ [](Terminated => (pc = "exit" <=> emitted # << >>))
    /\ [](pc = "ok" => NothingToReport)
    /\ [][StageRank' > StageRank]_vars

\* C18 witness: a run with two valid comments and every style rule on
\* returned Ok.
C18_Witness ==
    /\ pc = "ok"
    /\ AllStyleEnabled
    /\ Cardinality(OkPositions) = 2

\* the finding an invalid match is to yield is emitted
InvalidFindingEmitted(p) ==
    IF MatchAt(p).args.tag = "Malformed"
    THEN FindingAt(MalformedText, files[p[1]].path,
                   <<MatchAt(p).byte_offset, MatchAt(p).byte_offset + Len(PATTERN)>>)
    ELSE FindingAt(InvalidCountText, files[p[1]].path,
                   <<MatchAt(p).args.start, MatchAt(p).args.end>>)

C15_ConvertedHasStyle ==
    IsSome(caseHas) => Unwrap(caseHas) = TRUE

\* the positions of s at which a digit directly follows a lowercase letter,
\* and those at which a digit directly follows the separator
DigitsAfterLowercase(s) ==
    {k \in 2..Len(s) : s[k] \in Digits /\ is_lowercase(s[k - 1])}
DigitsAfterSeparator(s, sep) ==
    {k \in 2..Len(s) : s[k] \in Digits /\ s[k - 1] = sep}

\* C20: in the conversion to SCREAMING_SNAKE_CASE a digit directly after a
\* lowercase letter starts a new word, so a separator is put before it:
\* "fooBar3" becomes "FOO_BAR_3".
C20_DigitAfterLowercaseStartsWord ==
    (IsSome(caseResult) /\ caseStyle = "ScreamingSnake") =>
        /\ caseText = <<"f", "o", "o", "B", "a", "r", "3">> =>
              Unwrap(caseResult) = <<"F", "O", "O", "_", "B", "A", "R", "_", "3">>
        /\ Cardinality(DigitsAfterSeparator(Unwrap(caseResult), "_"))
              >= Cardinality(DigitsAfterLowercase(caseText))

\* s is one or more non-empty words of characters of the given kind joined
\* by single separators
JoinedWords(s, sep, IsWordChar(_)) ==
    /\ Len(s) > 0
    /\ \A k \in 1..Len(s) : s[k] = sep \/ IsWordChar(s[k])
    /\ s[1] # sep
    /\ s[Len(s)] # sep
    /\ \A k \in 1..(Len(s) - 1) : ~(s[k] = sep /\ s[k + 1] = sep)

IsUpperOrDigit(c) == is_uppercase(c) \/ c \in Digits
IsLowerOrDigit(c) == is_lowercase(c) \/ c \in Digits

Converted == IsSome(caseResult)

\* C21: a text of words of uppercase letters and digits joined by single
\* underscores is what to_screaming_snake_case returns for it, and
\* is_screaming_snake_case accepts it; a text of words of lowercase letters
\* and digits joined by single hyphens is a fixed point of the kebab
\* conversion and the kebab predicate accepts it.
C21_ScreamingAndKebabFixedPoints ==
    /\ (Converted /\ caseStyle = "ScreamingSnake"
            /\ JoinedWords(caseText, "_", IsUpperOrDigit)) =>
          /\ Unwrap(caseResult) = caseText
          /\ is_screaming_snake_case(caseText)
          /\ IsSome(caseHas) => Unwrap(caseHas)
    /\ (Converted /\ caseStyle = "Kebab"
            /\ JoinedWords(caseText, "-", IsLowerOrDigit)) =>
          /\ Unwrap(caseResult) = caseText
          /\ is_kebab_case(caseText)
          /\ IsSome(caseHas) => Unwrap(caseHas)

\* C21 witness: "FOO_BAR1" was converted to SCREAMING_SNAKE_CASE and came out
\* as it went in.
C21_Witness ==
    /\ caseStyle = "ScreamingSnake"
    /\ caseText = <<"F", "O", "O", "_", "B", "A", "R", "1">>
    /\ caseHas = Some(TRUE)
    /\ Unwrap(caseResult) = caseText

\* the snake-like conversions of the source tree and their separators
SnakeLikeSeparator ==
    [ScreamingSnake |-> "_", Snake |-> "_", Kebab |-> "-"]

\* r neither starts nor ends with sep and holds no two adjacent sep
Tidy(r, sep) ==
    /\ Len(r) > 0 => (r[1] # sep /\ r[Len(r)] # sep)
    /\ \A k \in 1..(Len(r) - 1) : ~(r[k] = sep /\ r[k + 1] = sep)

\* C22: conversion drops leading and trailing non-alphanumeric characters
\* and collapses interior runs of them: what to_case_snake_like returns
\* never starts or ends with the separator and never holds two adjacent
\* separators, what to_camel_case returns holds alphanumeric characters
\* only, and the empty text is converted to the empty text.
C22_SeparatorsTrimmedAndCollapsed ==
    Converted =>
        /\ caseStyle \in DOMAIN SnakeLikeSeparator =>
              /\ Unwrap(caseResult) =
                     to_case_snake_like(caseText, SnakeLikeSeparator[caseStyle],
                         IF caseStyle = "ScreamingSnake" THEN "upper" ELSE "lower")
              /\ Tidy(Unwrap(caseResult), SnakeLikeSeparator[caseStyle])
        /\ caseStyle = "Camel" =>
              /\ Unwrap(caseResult) = to_camel_case(caseText)
              /\ \A k \in 1..Len(Unwrap(caseResult)) :
                     is_alphanumeric(Unwrap(caseResult)[k])
        /\ caseText = << >> => Unwrap(caseResult) = << >>

\* C22 witness: "_a_-" was converted to SCREAMING_SNAKE_CASE; its leading
\* separator and its trailing run of separators are gone.
C22_Witness ==
    /\ caseStyle = "ScreamingSnake"
    /\ caseText = <<"_", "a", "_", "-">>
    /\ caseResult = Some(<<"A">>)

\* C23: to_camel_case lowercases every word and capitalizes only the first
\* letter of each word but the first, and a run of capitals is one word: in
\* what it returns no uppercase letter is immediately followed by another.
C23_NoAdjacentCapitals ==
    (Converted /\ caseStyle = "Camel") =>
        /\ Unwrap(caseResult) = to_camel_case(caseText)
        /\ \A k \in 1..(Len(Unwrap(caseResult)) - 1) :
               ~(is_uppercase(Unwrap(caseResult)[k])
                   /\ is_uppercase(Unwrap(caseResult)[k + 1]))

\* the first k characters of the first n characters of p are also their last
\* k, and k < n
IsBorder(p, n, k) ==
    /\ k < n
    /\ SubSeq(p, 1, k) = SubSeq(p, n - k + 1, n)

\* the length of the longest proper prefix of p[0..n) that is also its suffix
LongestBorder(p, n) ==
    CHOOSE k \in 0..(n - 1) :
        /\ IsBorder(p, n, k)
        /\ \A l \in 0..(n - 1) : IsBorder(p, n, l) => l <= k

Built == IsSome(kmpTable)

\* C24: kmp::table returns the failure table of the needle: entry i is the
\* length of the longest proper prefix of the needle that is also a suffix
\* of its first i+1 bytes, entry 0 is 0, and for the marker CODESYNC the
\* table is [0,0,0,0,0,0,0,1].
C24_TableIsFailureTable ==
    Built =>
        /\ Unwrap(kmpTable) = table(needle)
        /\ Len(Unwrap(kmpTable)) = Len(needle)
        /\ Unwrap(kmpTable)[1] = 0
        /\ \A i \in 0..(Len(needle) - 1) :
               Unwrap(kmpTable)[i + 1] = LongestBorder(needle, i + 1)
        /\ needle = PATTERN =>
               /\ Unwrap(kmpTable) = <<0, 0, 0, 0, 0, 0, 0, 1>>
               /\ PATTERN_KMP_TABLE = Unwrap(kmpTable)

\* C24 witness: the table of "AABAAA" was built; its last entry is reached
\* by falling back from the border "AA" of "AABAA" to the border "A".
C24_Witness ==
    /\ needle = <<"A", "A", "B", "A", "A", "A">>
    /\ kmpTable = Some(<<0, 1, 0, 1, 2, 2>>)

\* the comment made of the match at a position (Match::to_comment)
CommentAt(p) == [file |-> files[p[1]].path, m |-> MatchAt(p)]

\* where in the groups a comment stands: <<label, index>>
PlacesOf(groups, comment) ==
    UNION {{<<l, k>> : k \in {n \in 1..Len(groups[l]) : groups[l][n] = comment}}
              : l \in DOMAIN groups}

\* position p comes before position q in the scan: an earlier file, or the
\* same file and a smaller byte offset
ScannedBefore(p, q) ==
    \/ p[1] < q[1]
    \/ p[1] = q[1] /\ MatchAt(p).byte_offset < MatchAt(q).byte_offset

\* C25: group_by_label partitions the valid comments: every match whose args
\* is Ok stands in exactly one group, the one keyed by its trimmed label; no
\* match whose args is Err stands in a group; no group is empty; the members
\* of a group are in scan order (file order, then ascending byte offset).
C25_GroupsPartitionValidComments ==
    LET groups == group_by_label(files)
    IN  /\ \A p \in OkPositions :
               PlacesOf(groups, CommentAt(p)) \subseteq
                   {<<Trim(MatchAt(p).args.label.match_), k>> :
                        k \in 1..Cardinality(OkPositions)}
               /\ Cardinality(PlacesOf(groups, CommentAt(p))) = 1
        /\ \A p \in MatchPositions \ OkPositions :
               PlacesOf(groups, CommentAt(p)) = {}
        /\ \A l \in DOMAIN groups :
               /\ Len(groups[l]) > 0
               /\ \A k \in 1..Len(groups[l]) :
                      \E p \in OkPositions : groups[l][k] = CommentAt(p)
               /\ \A j, k \in 1..Len(groups[l]) :
                      j < k =>
                          \E p, q \in OkPositions :
                              /\ groups[l][j] = CommentAt(p)
                              /\ groups[l][k] = CommentAt(q)
                              /\ ScannedBefore(p, q)

\* C25 witness: the count rule has grouped the comments; a label written
\* with a leading space stands in a group with two members of one file and
\* one of another.
C25_Witness ==
    /\ pc = "counts_reported"
    /\ \E p, q, r \in OkPositions :
           /\ p[1] = q[1] /\ p[2] < q[2] /\ r[1] # p[1]
           /\ MatchAt(p).args.label.match_ # MatchAt(p).args.label.val
           /\ MatchAt(q).args.label.val = MatchAt(p).args.label.val
           /\ MatchAt(r).args.label.val = MatchAt(p).args.label.val
           /\ Len(group_by_label(files)[MatchAt(p).args.label.val]) = 3

\* the text of the file read so far
RECURSIVE Flatten(_)
Flatten(ls) == IF Len(ls) = 0 THEN << >> ELSE Head(ls) \o Flatten(Tail(ls))

\* the range <<s, e>> lies within the range <<from, to>>
Within(inner, outer) ==
    /\ outer[1] <= inner[1]
    /\ inner[1] <= inner[2]
    /\ inner[2] <= outer[2]

\* C26: the span of a Match is byte_offset .. byte_offset + 8 + (args.len if
\* args is Ok, else 0); when args is Ok it ends one past the closing
\* parenthesis of the annotation and contains the span of the label and,
\* when there is one, of the count; the label's span starts at
\* byte_offset + 9 and the count's one byte after the label's span ends.
C26_SpanCoversAnnotation ==
    Searching => \A j \in 1..Len(FoundMatches) :
        LET m == FoundMatches[j]
            text == Flatten(content)
        IN  /\ Span(m) = <<m.byte_offset,
                           m.byte_offset + 8
                               + (IF m.args.tag = "Ok" THEN m.args.len ELSE 0)>>
            /\ m.args.tag = "Ok" =>
                  /\ Span(m)[2] <= Len(text)
                  /\ text[Span(m)[2]] = ")"
                  /\ \A k \in (m.byte_offset + 8)..(Span(m)[2] - 2) :
                         text[k + 1] # ")"
                  /\ Within(m.args.label.span, Span(m))
                  /\ m.args.label.span[1] = m.byte_offset + 9
                  /\ IsSome(m.args.count) =>
                        /\ Within(Unwrap(m.args.count).span, Span(m))
                        /\ Unwrap(m.args.count).span[1] =
                               m.args.label.span[2] + 1

\* C26 witness: a file's second line, " CODESYNC(a, 2)", was scanned: its
\* Match has a label and a count and does not start at offset 0.
C26_Witness ==
    /\ Searching
    /\ \E j \in 1..Len(FoundMatches) :
           /\ FoundMatches[j].byte_offset > 1
           /\ FoundMatches[j].args.tag = "Ok"
           /\ IsSome(FoundMatches[j].args.count)
           /\ Span(FoundMatches[j]) =
                  <<FoundMatches[j].byte_offset, FoundMatches[j].byte_offset + 14>>

====
